---- MODULE Spec2Model ----
(***************************************************************************)
(* Bully leader election with Lamport timestamps (src/election.py,         *)
(* src/network.py, src/node.py, src/lamport.py).                          *)
(*                                                                         *)
(* A cluster of node processes.  Every node runs BullyElection: election   *)
(* rounds (start_election) run in their own threads, every outbound        *)
(* message is carried by its own sender thread (_send_message), and the    *)
(* HTTP endpoint /rpc hands every inbound message to handle_message.       *)
(* The endpoint is open: besides the peers, any HTTP client may post a     *)
(* message to it.  A node whose process is not running is unreachable:     *)
(* every send to it fails.                                                 *)
(***************************************************************************)
EXTENDS Integers, Sequences, FiniteSets, Bags, TLC

(***************************************************************************)
(* Bounds of the model.                                                    *)
(***************************************************************************)
\* election threads started by the operator console and by the heartbeat loop
MaxTriggers == 1
\* messages posted to /rpc by clients that are not nodes of the cluster
MaxPosts == 1

(***************************************************************************)
(* Values.                                                                 *)
(***************************************************************************)
\* Optional[T]: None is the empty tuple, a present value x is <<x>>.
None == <<>>
Some(x) == <<x>>

\* The node processes, by id (--id).
Nodes == {1, 2, 3}
\* The poster of a message that no node of the cluster sent.
Ext == 0

\* peer_map of node n, by id: the directory holds every other node.
\* The URL of peer p is written Some(p) where an address is optional.
peer_map(n) == Nodes \ {n}

(***************************************************************************)
(* str(int) and int(str): the wire carries ids as decimal strings, here    *)
(* sequences of one-character strings.                                     *)
(***************************************************************************)
DigitChars == <<"0", "1", "2", "3", "4", "5", "6", "7", "8", "9">>
IsDigit(c) == \E i \in 1..10 : DigitChars[i] = c
DigitVal(c) == (CHOOSE i \in 1..10 : DigitChars[i] = c) - 1

RECURSIVE Str(_)
Str(k) ==
    IF k < 0 THEN <<"-">> \o Str(0 - k)
    ELSE IF k < 10 THEN <<DigitChars[k + 1]>>
    ELSE Str(k \div 10) \o <<DigitChars[(k % 10) + 1]>>

IsDigits(s) == Len(s) > 0 /\ \A i \in 1..Len(s) : IsDigit(s[i])

RECURSIVE NatOf(_)
NatOf(s) ==
    IF Len(s) = 0 THEN 0
    ELSE NatOf(SubSeq(s, 1, Len(s) - 1)) * 10 + DigitVal(s[Len(s)])

\* try: x = int(w) / except Exception: pass, with x = None before the try.
\* int(None) raises TypeError, int of a non-numeric string raises ValueError.
ParseInt(w) ==
    IF w = None THEN None
    ELSE LET s == w[1] IN
         IF IsDigits(s) THEN Some(NatOf(s))
         ELSE IF Len(s) > 1 /\ s[1] \in {"-", "+"} /\ IsDigits(Tail(s))
              THEN Some(IF s[1] = "-" THEN 0 - NatOf(Tail(s)) ELSE NatOf(Tail(s)))
              ELSE None

(***************************************************************************)
(* State.                                                                  *)
(***************************************************************************)
VARIABLES
    leader_id,      \* [n] BullyElection.leader_id : Optional[int]
    election_lock,  \* [n] BullyElection._election_lock is held
    ok_event,       \* [n] BullyElection._ok_event is set
    thr,            \* [n][pc] number of start_election threads of n at pc
    msgs,           \* bag of messages carried by live sender threads
    up,             \* the nodes whose process is running
    started,        \* nodes whose main() has started the initial election
    triggers,       \* election threads started by the console or the heartbeat
    posted,         \* messages posted by outside clients so far
    time,           \* LamportClock.time of the node whose clock is followed
    calls,          \* [c] the call of tick/update that caller c is in, or made last
    timely,         \* ok_timeout outlasts every answer that is still to come
    fresh,          \* nodes that have processed a COORDINATOR of a higher id
                    \* since a call of theirs last passed the guard
    deferred,       \* nodes with a round that ended on an OK and no COORDINATOR
                    \* of a higher id processed since that round began
    heard           \* nodes that have processed a COORDINATOR of a higher id

electionVars == <<leader_id, election_lock, ok_event, thr, msgs, up, started, triggers, posted>>
clockVars == <<time, calls>>
clusterVars == <<timely, fresh, deferred, heard>>
vars == <<electionVars, clockVars, clusterVars>>

\* Positions of a start_election thread:
\*   "acquire"  started, before _election_lock.acquire(blocking=False)
\*   "clear"    lock acquired, before _ok_event.clear()
\*   "branch"   before higher_peers is computed and tested
\*   "wait"     in _ok_event.wait(timeout=ok_timeout)
\*   "finally"  leaving the try block, before _election_lock.release()
PCs == {"acquire", "clear", "branch", "wait", "finally"}

\* start_election threads of n past the guard.
InBody(n) == thr[n]["clear"] + thr[n]["branch"] + thr[n]["wait"] + thr[n]["finally"]

Spawn(n) == [thr EXCEPT ![n]["acquire"] = @ + 1]
Move(n, a, b) == [thr EXCEPT ![n][a] = @ - 1, ![n][b] = @ + 1]
Exit(n, a) == [thr EXCEPT ![n][a] = @ - 1]

(***************************************************************************)
(* Messages.                                                               *)
(***************************************************************************)
\* src is the process that sent the message, to the node whose /rpc it is
\* posted to; from, addr and leader are the wire fields "from",
\* payload.addr and payload.leader.
Msg(t, s, f, d, a, l) ==
    [type |-> t, src |-> s, from |-> f, to |-> d, addr |-> a, leader |-> l]

ElectionMsg(n, p) == Msg("ELECTION", n, Some(Str(n)), p, Some(n), None)
OkMsg(n, p) == Msg("OK", n, Some(Str(n)), p, Some(n), None)
\* Mutant: the announcement does not name the leader.
CoordinatorMsgUnnamed(n, p) == Msg("COORDINATOR", n, Some(Str(n)), p, Some(n), None)

CoordinatorMsg(n, p) == Msg("COORDINATOR", n, Some(Str(n)), p, Some(n), Some(Str(n)))
\* heartbeat_loop: {"type": "PING", "from": str(node_id), "payload": {"addr": addr}}
PingMsg(n, p) == Msg("PING", n, Some(Str(n)), p, Some(n), None)

\* threading.Thread(target=self._send_message, ...).start() for each of S
Sent(S) == msgs (+) SetToBag(S)

\* Mutant: the id test is dropped, every peer counts as higher.
higher_peers_all(n) == peer_map(n)

\* higher_peers = {pid: url for pid, url in self.peer_map.items() if pid > self.id}
higher_peers(n) == {p \in peer_map(n) : p > n}

(***************************************************************************)
(* The Lamport clock (src/lamport.py) and the calls made on it.            *)
(***************************************************************************)
\* A call of tick/update starts only while the clock is below MaxTime.
MaxTime == 2
\* The largest timestamp an inbound message carries.
MaxTs == 2
\* The clock values up to which update is applied as a function.
MaxApplied == 12

\* What update is handed as remote_ts: nothing, a number, or a string.
TsNone == [kind |-> "none", int |-> 0, str |-> <<>>]
TsInt(k) == [kind |-> "int", int |-> k, str |-> <<>>]
TsStr(s) == [kind |-> "str", int |-> 0, str |-> s]

IntTs == {TsInt(k) : k \in -1..MaxTs}
RemoteTs == {TsNone} \cup IntTs \cup {TsStr(<<"x">>), TsStr(<<>>), TsStr(Str(MaxTs))}

\* try: r = int(remote_ts) / except Exception: None stands for the exception.
IntOf(r) ==
    CASE r.kind = "int" -> Some(r.int)
      [] r.kind = "str" -> ParseInt(Some(r.str))
      [] OTHER -> None

Max(a, b) == IF a >= b THEN a ELSE b

\* self.time += 1, on the value t the call read
tick(t) == t + 1

\* Mutant: the received timestamp is merged without counting the receive.
update_merges_only(t, r) ==
    IF IntOf(r) = None THEN tick(t) ELSE Max(t, IntOf(r)[1])

\* self.time = max(self.time, r) + 1 on the value t the call read, and
\* return self.tick() when int(remote_ts) raised
update(t, r) ==
    IF IntOf(r) = None THEN tick(t) ELSE Max(t, IntOf(r)[1]) + 1

\* Who calls the clock of a node: rpc_endpoint on the event loop, the sender
\* threads of the election (send_rpc) and the heartbeat thread (send_rpc).
Callers == {"rpc", "sender", "heartbeat"}

\* A caller is idle, or has read self.time into reg and is about to store
\* ("store"), or has stored and is about to read the value it returns
\* ("return"); ret is the value its last call returned.
NoCall == [pc |-> "idle", op |-> "none", arg |-> TsNone, reg |-> 0, ret |-> 0]

\* One process of the cluster runs (its peers are down, whatever reaches it
\* is posted by outside clients).
Init ==
    /\ leader_id = [n \in Nodes |-> None]
    /\ election_lock = [n \in Nodes |-> FALSE]
    /\ ok_event = [n \in Nodes |-> FALSE]
    /\ thr = [n \in Nodes |-> [p \in PCs |-> 0]]
    /\ msgs = EmptyBag
    /\ up \in {{n} : n \in Nodes}
    /\ started = {}
    /\ triggers = 0
    /\ posted = 0
    /\ time = 0
    /\ calls = [c \in Callers |-> NoCall]
    /\ timely = FALSE
    /\ fresh = {}
    /\ deferred = {}
    /\ heard = {}

(***************************************************************************)
(* Who starts an election thread.                                          *)
(***************************************************************************)
\* main(): the initial election of a node.
Startup(n) ==
    /\ n \in up
    /\ n \notin started
    /\ started' = started \cup {n}
    /\ thr' = Spawn(n)
    /\ UNCHANGED <<leader_id, election_lock, ok_event, msgs, up, triggers, posted>>

\* main(): the console command "election".
OperatorElection(n) ==
    /\ n \in started
    /\ triggers < MaxTriggers
    /\ triggers' = triggers + 1
    /\ thr' = Spawn(n)
    /\ UNCHANGED <<leader_id, election_lock, ok_event, msgs, up, started, posted>>

\* Mutant: the failed peer is not compared with leader_id.
ProbeFailedAnyPeer(n, p) ==
    /\ n \in started
    /\ p \in peer_map(n)
    /\ triggers < MaxTriggers
    /\ thr' = Spawn(n)
    /\ triggers' = triggers + 1
    /\ UNCHANGED <<leader_id, election_lock, ok_event, msgs, up, started, posted>>

\* heartbeat_loop: the probe of peer p failed.
ProbeFailed(n, p) ==
    /\ n \in started
    /\ p \in peer_map(n)
    /\ triggers < MaxTriggers
    /\ IF leader_id[n] # None /\ leader_id[n] = Some(p)
       THEN /\ thr' = Spawn(n)
            /\ triggers' = triggers + 1
       ELSE UNCHANGED <<thr, triggers>>
    /\ UNCHANGED <<leader_id, election_lock, ok_event, msgs, up, started, posted>>

(***************************************************************************)
(* start_election, step by step.                                           *)
(***************************************************************************)
\* Mutant: the result of acquire() is not tested, every call enters the body.
TryAcquireUnguarded(n) ==
    /\ thr[n]["acquire"] > 0
    /\ election_lock' = [election_lock EXCEPT ![n] = TRUE]
    /\ thr' = Move(n, "acquire", "clear")
    /\ UNCHANGED <<leader_id, ok_event, msgs, up, started, triggers, posted>>

\* Mutant: the OK signal is cleared before the guard is tried.
TryAcquireClearsFirst(n) ==
    /\ thr[n]["acquire"] > 0
    /\ ok_event' = [ok_event EXCEPT ![n] = FALSE]
    /\ IF election_lock[n]
       THEN /\ thr' = Exit(n, "acquire")
            /\ UNCHANGED election_lock
       ELSE /\ election_lock' = [election_lock EXCEPT ![n] = TRUE]
            /\ thr' = Move(n, "acquire", "clear")
    /\ UNCHANGED <<leader_id, msgs, up, started, triggers, posted>>

\* if not self._election_lock.acquire(blocking=False): return
TryAcquire(n) ==
    /\ thr[n]["acquire"] > 0
    /\ IF election_lock[n]
       THEN /\ thr' = Exit(n, "acquire")
            /\ UNCHANGED election_lock
       ELSE /\ election_lock' = [election_lock EXCEPT ![n] = TRUE]
            /\ thr' = Move(n, "acquire", "clear")
    /\ UNCHANGED <<leader_id, ok_event, msgs, up, started, triggers, posted>>

\* Mutant: the round does not reset the OK signal.
ClearOkKeeps(n) ==
    /\ thr[n]["clear"] > 0
    /\ thr' = Move(n, "clear", "branch")
    /\ UNCHANGED <<leader_id, election_lock, ok_event, msgs, up, started, triggers, posted>>

\* self._ok_event.clear()
ClearOk(n) ==
    /\ thr[n]["clear"] > 0
    /\ ok_event' = [ok_event EXCEPT ![n] = FALSE]
    /\ thr' = Move(n, "clear", "branch")
    /\ UNCHANGED <<leader_id, election_lock, msgs, up, started, triggers, posted>>

\* Mutant: the node promotes itself and tells nobody.
BecomeLeaderSilent(n) ==
    /\ leader_id' = [leader_id EXCEPT ![n] = Some(n)]
    /\ msgs' = msgs

\* Mutant: the COORDINATOR goes to the higher peers only.
BecomeLeaderToHigherOnly(n) ==
    /\ leader_id' = [leader_id EXCEPT ![n] = Some(n)]
    /\ msgs' = Sent({CoordinatorMsg(n, p) : p \in higher_peers(n)})

\* self.leader_id = self.id, then one COORDINATOR sender thread per peer.
BecomeLeader(n) ==
    /\ leader_id' = [leader_id EXCEPT ![n] = Some(n)]
    /\ msgs' = Sent({CoordinatorMsg(n, p) : p \in peer_map(n)})

\* Mutant: no shortcut for an empty higher_peers, the round always waits.
BranchAlwaysWaits(n) ==
    /\ thr[n]["branch"] > 0
    /\ msgs' = Sent({ElectionMsg(n, p) : p \in higher_peers(n)})
    /\ thr' = Move(n, "branch", "wait")
    /\ UNCHANGED <<leader_id, election_lock, ok_event, up, started, triggers, posted>>

\* higher_peers empty: lead at once; otherwise one ELECTION sender thread per
\* higher peer, then wait.
Branch(n) ==
    /\ thr[n]["branch"] > 0
    /\ IF higher_peers(n) = {}
       THEN /\ BecomeLeader(n)
            /\ thr' = Move(n, "branch", "finally")
       ELSE /\ msgs' = Sent({ElectionMsg(n, p) : p \in higher_peers(n)})
            /\ thr' = Move(n, "branch", "wait")
            /\ UNCHANGED leader_id
    /\ UNCHANGED <<election_lock, ok_event, up, started, triggers, posted>>

\* Mutant: the round that observed an OK returns without releasing the lock.
WaitOkKeepsLock(n) ==
    /\ thr[n]["wait"] > 0
    /\ IF ok_event[n]
       THEN /\ thr' = Exit(n, "wait")
            /\ UNCHANGED <<leader_id, msgs>>
       ELSE /\ BecomeLeader(n)
            /\ thr' = Move(n, "wait", "finally")
    /\ UNCHANGED <<election_lock, ok_event, up, started, triggers, posted>>

\* Mutant: the test of got_ok is inverted.
WaitOkInverted(n) ==
    /\ thr[n]["wait"] > 0
    /\ IF ok_event[n]
       THEN BecomeLeader(n)
       ELSE UNCHANGED <<leader_id, msgs>>
    /\ thr' = Move(n, "wait", "finally")
    /\ UNCHANGED <<election_lock, ok_event, up, started, triggers, posted>>

\* got_ok = self._ok_event.wait(timeout): True as soon as the event is set,
\* False when the timeout passes with the event clear.
WaitOk(n) ==
    /\ thr[n]["wait"] > 0
    /\ IF ok_event[n]
       THEN UNCHANGED <<leader_id, msgs>>
       ELSE BecomeLeader(n)
    /\ thr' = Move(n, "wait", "finally")
    /\ UNCHANGED <<election_lock, ok_event, up, started, triggers, posted>>

\* finally: self._election_lock.release()
Release(n) ==
    /\ thr[n]["finally"] > 0
    /\ election_lock' = [election_lock EXCEPT ![n] = FALSE]
    /\ thr' = Exit(n, "finally")
    /\ UNCHANGED <<leader_id, ok_event, msgs, up, started, triggers, posted>>

(***************************************************************************)
(* handle_message(msg, local_ts) at node n; net is the bag of messages     *)
(* in flight when the handler runs.                                        *)
(***************************************************************************)
\* Mutant: the id test is <= instead of <.
OnElectionAnswersEqual(n, m, net) ==
    LET from_id == ParseInt(m.from) IN
    IF from_id # None /\ from_id[1] <= n
    THEN /\ msgs' = IF m.addr # None
                    THEN net (+) SetToBag({OkMsg(n, m.addr[1])})
                    ELSE net
         /\ thr' = Spawn(n)
         /\ UNCHANGED <<leader_id, ok_event>>
    ELSE /\ msgs' = net
         /\ UNCHANGED <<leader_id, ok_event, thr>>

\* mtype == "ELECTION": a sender with a lower id is answered OK at the
\* address it advertises, if any, and an election thread is started.
OnElection(n, m, net) ==
    LET from_id == ParseInt(m.from) IN
    IF from_id # None /\ from_id[1] < n
    THEN /\ msgs' = IF m.addr # None
                    THEN net (+) SetToBag({OkMsg(n, m.addr[1])})
                    ELSE net
         /\ thr' = Spawn(n)
         /\ UNCHANGED <<leader_id, ok_event>>
    ELSE /\ msgs' = net
         /\ UNCHANGED <<leader_id, ok_event, thr>>

\* Mutant: an OK makes its sender the leader.
OnOkSetsLeader(n, m, net) ==
    /\ ok_event' = [ok_event EXCEPT ![n] = TRUE]
    /\ leader_id' = [leader_id EXCEPT ![n] = ParseInt(m.from)]
    /\ msgs' = net
    /\ UNCHANGED thr

\* mtype == "OK": self._ok_event.set()
OnOk(n, m, net) ==
    /\ ok_event' = [ok_event EXCEPT ![n] = TRUE]
    /\ msgs' = net
    /\ UNCHANGED <<leader_id, thr>>

\* Mutant: a leader with an id below the node's own is not accepted.
OnCoordinatorRejectsLower(n, m, net) ==
    LET l == ParseInt(m.leader) IN
    /\ leader_id' = IF l # None /\ l[1] < n THEN leader_id
                    ELSE [leader_id EXCEPT ![n] = l]
    /\ msgs' = net
    /\ UNCHANGED <<ok_event, thr>>

\* mtype == "COORDINATOR": self.leader_id = leader_id, None when int(leader)
\* raised.
OnCoordinator(n, m, net) ==
    /\ leader_id' = [leader_id EXCEPT ![n] = ParseInt(m.leader)]
    /\ msgs' = net
    /\ UNCHANGED <<ok_event, thr>>

\* Mutant: any other message counts as an answer.
OnOtherSetsOk(n, m, net) ==
    /\ ok_event' = [ok_event EXCEPT ![n] = TRUE]
    /\ msgs' = net
    /\ UNCHANGED <<leader_id, thr>>

\* mtype == "PING" and unknown types: logged only.
OnOther(n, m, net) ==
    /\ msgs' = net
    /\ UNCHANGED <<leader_id, ok_event, thr>>

handle_message(n, m, net) ==
    CASE m.type = "ELECTION" -> OnElection(n, m, net)
      [] m.type = "OK" -> OnOk(n, m, net)
      [] m.type = "COORDINATOR" -> OnCoordinator(n, m, net)
      [] OTHER -> OnOther(n, m, net)

\* send_rpc of a sender thread succeeds: rpc_endpoint of m.to hands the
\* message to the handler.
Deliver(m) ==
    /\ BagIn(m, msgs)
    /\ m.to \in up
    /\ handle_message(m.to, m, msgs (-) SetToBag({m}))
    /\ UNCHANGED <<election_lock, up, started, triggers, posted>>

\* _send_message: send_rpc raised, the failure is logged and dropped.
SendFails(m) ==
    /\ BagIn(m, msgs)
    /\ msgs' = msgs (-) SetToBag({m})
    /\ UNCHANGED <<leader_id, election_lock, ok_event, thr, up, started, triggers, posted>>

\* heartbeat_loop: the probe of peer p succeeded: send_rpc, called by the
\* heartbeat thread itself, returned after rpc_endpoint of p handed the PING
\* to p's handler.
ProbeOk(n, p) ==
    /\ n \in started
    /\ p \in peer_map(n) \cap up
    /\ handle_message(p, PingMsg(n, p), msgs)
    /\ UNCHANGED <<election_lock, up, started, triggers, posted>>

(***************************************************************************)
(* Messages of outside clients: any type, any sender id, any payload.      *)
(***************************************************************************)
WireIds ==
    {None, Some(Str(0)), Some(Str(1)), Some(Str(2)), Some(Str(3)), Some(<<"x">>)}
WireLeaders ==
    {None, Some(Str(1)), Some(Str(2)), Some(Str(3)), Some(Str(7)), Some(<<"x">>), Some(<<>>)}

\* An ELECTION advertises no address, the address of the node it names as
\* sender, or the address of the node it is posted to.
PostTable == [n \in Nodes |->
    UNION {{Msg("ELECTION", Ext, f, n, a, None) :
               a \in {None, Some(n)} \cup {Some(p) : p \in {q \in Nodes : Some(Str(q)) = f}}} :
           f \in WireIds}
    \cup {Msg("COORDINATOR", Ext, None, n, None, l) : l \in WireLeaders}
    \cup {Msg(t, Ext, None, n, None, None) : t \in {"OK", "PING", "STATUS"}}]

PostMsgs(n) == PostTable[n]

\* rpc_endpoint: a client posts m to node n, which hands it to the handler.
Post(n, m) ==
    /\ n \in up
    /\ posted < MaxPosts
    /\ posted' = posted + 1
    /\ handle_message(n, m, msgs)
    /\ UNCHANGED <<election_lock, up, started, triggers>>

\* The steps of the election; the clock and the cluster's timing are followed
\* by the specifications further down.
Next ==
    \/ \E n \in Nodes : Startup(n) /\ UNCHANGED <<clockVars, clusterVars>>
    \/ \E n \in Nodes : OperatorElection(n) /\ UNCHANGED <<clockVars, clusterVars>>
    \/ \E n \in Nodes : \E p \in Nodes : ProbeFailed(n, p) /\ UNCHANGED <<clockVars, clusterVars>>
    \/ \E n \in Nodes : TryAcquire(n) /\ UNCHANGED <<clockVars, clusterVars>>
    \/ \E n \in Nodes : ClearOk(n) /\ UNCHANGED <<clockVars, clusterVars>>
    \/ \E n \in Nodes : Branch(n) /\ UNCHANGED <<clockVars, clusterVars>>
    \/ \E n \in Nodes : WaitOk(n) /\ UNCHANGED <<clockVars, clusterVars>>
    \/ \E n \in Nodes : Release(n) /\ UNCHANGED <<clockVars, clusterVars>>
    \/ \E m \in BagToSet(msgs) : Deliver(m) /\ UNCHANGED <<clockVars, clusterVars>>
    \/ \E m \in BagToSet(msgs) : SendFails(m) /\ UNCHANGED <<clockVars, clusterVars>>
    \/ \E n \in Nodes : \E m \in PostMsgs(n) : Post(n, m) /\ UNCHANGED <<clockVars, clusterVars>>

Spec == Init /\ [][Next]_vars

\* Threads run and the wait has a timeout: a round that holds the lock takes
\* its next step.
FairSpec ==
    /\ Spec
    /\ \A n \in Nodes :
          /\ WF_vars(ClearOk(n) /\ UNCHANGED <<clockVars, clusterVars>>)
          /\ WF_vars(Branch(n) /\ UNCHANGED <<clockVars, clusterVars>>)
          /\ WF_vars(WaitOk(n) /\ UNCHANGED <<clockVars, clusterVars>>)
          /\ WF_vars(Release(n) /\ UNCHANGED <<clockVars, clusterVars>>)

(***************************************************************************)
(* A cluster: two of the three processes run and stay up, the third is     *)
(* down.  Whatever is sent to a running process arrives; whatever is sent  *)
(* to the one that is down fails.                                          *)
(***************************************************************************)
Clusters == {Nodes \ {n} : n \in Nodes}

\* Either ok_timeout outlasts every answer (timely) or a wait may time out
\* while an answer is still on its way.
ClusterInit ==
    /\ leader_id = [n \in Nodes |-> None]
    /\ election_lock = [n \in Nodes |-> FALSE]
    /\ ok_event = [n \in Nodes |-> FALSE]
    /\ thr = [n \in Nodes |-> [p \in PCs |-> 0]]
    /\ msgs = EmptyBag
    /\ up \in Clusters
    /\ started = {}
    /\ triggers = 0
    /\ posted = 0
    /\ time = 0
    /\ calls = [c \in Callers |-> NoCall]
    /\ timely \in BOOLEAN
    /\ fresh = {}
    /\ deferred = {}
    /\ heard = {}

\* An answer to a round of n is still to come: an ELECTION of n is on its way
\* to a running peer, or an OK is on its way to n.
Outstanding(n) ==
    \E m \in BagToSet(msgs) :
        \/ m.type = "ELECTION" /\ m.src = n /\ m.to \in up
        \/ m.type = "OK" /\ m.to = n

\* A call of start_election tries the guard; a round begins when it passes.
RoundBegins(n) ==
    /\ TryAcquire(n)
    /\ fresh' = IF election_lock[n] THEN fresh ELSE fresh \ {n}
    /\ UNCHANGED <<timely, deferred, heard>>

\* Mutant: the wait times out whatever is still on its way.
RoundEndsEarly(n) ==
    /\ WaitOk(n)
    /\ deferred' = IF ok_event[n] /\ n \notin fresh THEN deferred \cup {n} ELSE deferred
    /\ UNCHANGED <<timely, fresh, heard>>

\* _ok_event.wait(timeout=ok_timeout) returns: the round saw an OK and defers,
\* or the wait timed out and the node promotes itself.
RoundEnds(n) ==
    /\ timely => (ok_event[n] \/ ~Outstanding(n))
    /\ WaitOk(n)
    /\ deferred' = IF ok_event[n] /\ n \notin fresh THEN deferred \cup {n} ELSE deferred
    /\ UNCHANGED <<timely, fresh, heard>>

\* m announces a leader whose id is higher than the id of the node it reaches.
AnnouncesHigher(m) ==
    /\ m.type = "COORDINATOR"
    /\ ParseInt(m.leader) # None
    /\ ParseInt(m.leader)[1] > m.to

\* A message reaches the running process it was sent to.
Received(m) ==
    /\ Deliver(m)
    /\ IF AnnouncesHigher(m)
       THEN /\ heard' = heard \cup {m.to}
            /\ fresh' = fresh \cup {m.to}
            /\ deferred' = deferred \ {m.to}
       ELSE UNCHANGED <<heard, fresh, deferred>>
    /\ UNCHANGED timely

\* A message was sent to the process that is down.
Unreachable(m) == m.to \notin up /\ SendFails(m)

ClusterNext ==
    \/ \E n \in Nodes : Startup(n) /\ UNCHANGED <<clockVars, clusterVars>>
    \/ \E n \in Nodes : RoundBegins(n) /\ UNCHANGED clockVars
    \/ \E n \in Nodes : ClearOk(n) /\ UNCHANGED <<clockVars, clusterVars>>
    \/ \E n \in Nodes : Branch(n) /\ UNCHANGED <<clockVars, clusterVars>>
    \/ \E n \in Nodes : RoundEnds(n) /\ UNCHANGED clockVars
    \/ \E n \in Nodes : Release(n) /\ UNCHANGED <<clockVars, clusterVars>>
    \/ \E m \in BagToSet(msgs) : Received(m) /\ UNCHANGED clockVars
    \/ \E m \in BagToSet(msgs) : Unreachable(m) /\ UNCHANGED <<clockVars, clusterVars>>

ClusterSpec == ClusterInit /\ [][ClusterNext]_vars

\* main() starts the initial election, threads run, sender threads finish.
FairClusterSpec ==
    /\ ClusterSpec
    /\ \A n \in Nodes :
          /\ WF_vars(Startup(n) /\ UNCHANGED <<clockVars, clusterVars>>)
          /\ WF_vars(RoundBegins(n) /\ UNCHANGED clockVars)
          /\ WF_vars(ClearOk(n) /\ UNCHANGED <<clockVars, clusterVars>>)
          /\ WF_vars(Branch(n) /\ UNCHANGED <<clockVars, clusterVars>>)
          /\ WF_vars(RoundEnds(n) /\ UNCHANGED clockVars)
          /\ WF_vars(Release(n) /\ UNCHANGED <<clockVars, clusterVars>>)
    /\ WF_vars(\E m \in BagToSet(msgs) : Received(m) /\ UNCHANGED clockVars)
    /\ WF_vars(\E m \in BagToSet(msgs) : Unreachable(m) /\ UNCHANGED <<clockVars, clusterVars>>)

\* The cluster with its heartbeat loops.  A probe may fail though the peer
\* runs (the request timed out).
HeartbeatNext ==
    \/ ClusterNext
    \/ \E n \in Nodes : \E p \in Nodes : ProbeFailed(n, p) /\ UNCHANGED <<clockVars, clusterVars>>
    \/ \E n \in Nodes : \E p \in Nodes : ProbeOk(n, p) /\ UNCHANGED <<clockVars, clusterVars>>

\* What a timely wait rules out is ruled in here.
HeartbeatInit == ClusterInit /\ ~timely

HeartbeatSpec == HeartbeatInit /\ [][HeartbeatNext]_vars

(***************************************************************************)
(* The clock of one node under its callers.  Neither tick nor update takes *)
(* a lock: a call reads self.time, stores the new value, and reads         *)
(* self.time again for the value it returns, and the calls of the other    *)
(* threads may run in between.                                             *)
(***************************************************************************)
Call(o, r, t) == [pc |-> "store", op |-> o, arg |-> r, reg |-> t, ret |-> 0]

\* send_rpc: ts = clock.tick(), up to the read of self.time
SendTick(c) ==
    /\ c \in {"sender", "heartbeat"}
    /\ calls[c].pc = "idle"
    /\ time < MaxTime
    /\ calls' = [calls EXCEPT ![c] = Call("tick", TsNone, time)]
    /\ UNCHANGED time

\* rpc_endpoint: clock.update(msg.ts) if msg.ts is not None else clock.tick(),
\* up to the read of self.time
Receive(ts) ==
    /\ calls["rpc"].pc = "idle"
    /\ time < MaxTime
    /\ calls' = [calls EXCEPT !["rpc"] =
                    Call(IF ts = TsNone THEN "tick" ELSE "update", ts, time)]
    /\ UNCHANGED time

\* the store of self.time += 1 and of self.time = max(self.time, r) + 1
Store(c) ==
    /\ calls[c].pc = "store"
    /\ time' = IF calls[c].op = "tick"
               THEN tick(calls[c].reg)
               ELSE update(calls[c].reg, calls[c].arg)
    /\ calls' = [calls EXCEPT ![c].pc = "return"]

\* return self.time
Return(c) ==
    /\ calls[c].pc = "return"
    /\ calls' = [calls EXCEPT ![c].pc = "idle", ![c].ret = time]
    /\ UNCHANGED time

ClockInit == Init /\ up = {1}

ClockNext ==
    \/ \E c \in Callers : SendTick(c) /\ UNCHANGED <<electionVars, clusterVars>>
    \/ \E ts \in {TsNone} \cup IntTs : Receive(ts) /\ UNCHANGED <<electionVars, clusterVars>>
    \/ \E c \in Callers : Store(c) /\ UNCHANGED <<electionVars, clusterVars>>
    \/ \E c \in Callers : Return(c) /\ UNCHANGED <<electionVars, clusterVars>>

ClockSpec == ClockInit /\ [][ClockNext]_vars

(***************************************************************************)
(* tick and update as functions: one call at a time, each run to its end.  *)
(***************************************************************************)
Returned(o, r, t, v) == [pc |-> "idle", op |-> o, arg |-> r, reg |-> t, ret |-> v]

TickAlone ==
    /\ time < MaxApplied
    /\ time' = tick(time)
    /\ calls' = [calls EXCEPT !["sender"] = Returned("tick", TsNone, time, tick(time))]

UpdateAlone(r) ==
    /\ time < MaxApplied
    /\ time' = update(time, r)
    /\ calls' = [calls EXCEPT !["rpc"] = Returned("update", r, time, update(time, r))]

AppliedNext ==
    \/ TickAlone /\ UNCHANGED <<electionVars, clusterVars>>
    \/ \E r \in RemoteTs : UpdateAlone(r) /\ UNCHANGED <<electionVars, clusterVars>>

AppliedSpec == ClockInit /\ [][AppliedNext]_vars

(***************************************************************************)
(* Properties.                                                             *)
(***************************************************************************)
\* C1: on every node at most one start_election thread is past the guard,
\* whoever started the threads and however they interleave.
C1_MutualExclusion == \A n \in Nodes : InBody(n) <= 1

\* A round runs while two more calls are about to try the guard.
C1_Witness ==
    \E n \in Nodes : InBody(n) = 1 /\ election_lock[n] /\ thr[n]["acquire"] >= 2

\* C2: a start_election call that finds the guard held returns at once: it
\* enters no wait, sends nothing, and leaves leader_id, the OK signal and the
\* guard as they are.
C2_CollisionIsNoOp ==
    [][\A n \in Nodes :
          (election_lock[n] /\ TryAcquire(n)) =>
              /\ leader_id' = leader_id
              /\ ok_event' = ok_event
              /\ election_lock' = election_lock
              /\ msgs' = msgs
              /\ \A pc \in PCs \ {"acquire"} : thr'[n][pc] = thr[n][pc]
              /\ thr'[n]["acquire"] = thr[n]["acquire"] - 1]_vars

\* A round waits with its OK signal set while another call is about to try
\* the guard.
C2_Witness ==
    \E n \in Nodes :
        /\ election_lock[n] /\ thr[n]["wait"] = 1 /\ ok_event[n]
        /\ thr[n]["acquire"] >= 1

\* C3: a guard that is held is eventually released, and it is held only
\* while a round is in the body.
C3_GuardReleased ==
    /\ \A n \in Nodes : election_lock[n] ~> ~election_lock[n]
    /\ [](\A n \in Nodes : election_lock[n] => InBody(n) >= 1)

\* A round self-promoted and released the guard, and a later call has
\* acquired it again.
C3_Witness ==
    \E n \in Nodes :
        /\ posted = 0 /\ leader_id[n] = Some(n)
        /\ election_lock[n] /\ thr[n]["clear"] = 1

(***************************************************************************)
(* Counting messages, and naming the step that handles a message.          *)
(***************************************************************************)
\* Messages of type t in flight in b that node n sent to p.
Copies(b, t, n, p) ==
    BagCardinality([m \in {x \in DOMAIN b : x.type = t /\ x.src = n /\ x.to = p} |-> b[m]])

\* The numbers an id field is tried with, and how str() writes them.
IdRange == 0..9
IdWire == [k \in IdRange |-> Some(Str(k))]

\* COORDINATOR messages in flight in b that n sent to p and whose leader field
\* is the number l as str() writes it.
CoordCopies(b, n, p, l) ==
    BagCardinality([m \in {x \in DOMAIN b : /\ x.type = "COORDINATOR" /\ x.src = n
                                           /\ x.to = p /\ x.leader = IdWire[l]} |-> b[m]])

\* Sender threads of type t that n starts in this step, to p.
New(t, n, p) == Copies(msgs', t, n, p) - Copies(msgs, t, n, p)

\* This step is node n handling message m of type t.
Handled(n, m) == Post(n, m) \/ (m.to = n /\ Deliver(m))
Inbound(n, t) ==
    {m \in PostMsgs(n) : m.type = t} \cup {m \in BagToSet(msgs) : m.to = n /\ m.type = t}
HandlerStep ==
    \/ posted' # posted
    \/ \E m \in BagToSet(msgs) : m.to \in up /\ CopiesIn(m, msgs') < CopiesIn(m, msgs)

\* C4: every ELECTION a node sends goes to a peer with a higher id, and the
\* round that passes the guard sends one to every such peer -- none at all
\* when no peer has a higher id.
C4_ElectionToHigherPeers ==
    [][\A n \in up : \A p \in Nodes :
          /\ New("ELECTION", n, p) > 0 => (p \in peer_map(n) /\ p > n)
          /\ Branch(n) =>
                New("ELECTION", n, p) = IF p \in peer_map(n) /\ p > n THEN 1 ELSE 0]_vars

\* Node 1 waits with one ELECTION in flight to each of its higher peers 2, 3.
C4_Witness ==
    /\ up = {1} /\ thr[1]["wait"] = 1
    /\ Copies(msgs, "ELECTION", 1, 2) = 1 /\ Copies(msgs, "ELECTION", 1, 3) = 1
    /\ BagCardinality(msgs) = 2

\* C5: a round of a node without higher peers does not wait: the step after
\* the guard sets leader_id to the node's id and sends one COORDINATOR naming
\* it to every peer, and the round's next step releases the guard.
C5_ImmediatePromotion ==
    [][\A n \in up :
          /\ ({p \in peer_map(n) : p > n} = {} /\ Branch(n)) =>
                /\ leader_id'[n] = Some(n)
                /\ \A p \in Nodes :
                      /\ New("COORDINATOR", n, p) = IF p \in peer_map(n) THEN 1 ELSE 0
                      /\ CoordCopies(msgs', n, p, n) = Copies(msgs', "COORDINATOR", n, p)
                /\ thr'[n]["wait"] = thr[n]["wait"]
                /\ thr'[n]["finally"] = thr[n]["finally"] + 1
                /\ election_lock'[n]
          /\ Release(n) => ~election_lock'[n]]_vars

\* Node 3 led at once and has released its guard; its two COORDINATORs are
\* in flight.
C5_Witness ==
    /\ up = {3} /\ posted = 0 /\ triggers = 0
    /\ leader_id[3] = Some(3) /\ ~election_lock[3] /\ InBody(3) = 0
    /\ CoordCopies(msgs, 3, 1, 3) = 1 /\ CoordCopies(msgs, 3, 2, 3) = 1

\* C6: a waiting round that times out with the OK signal clear sets leader_id
\* to the node's id and sends a COORDINATOR naming it to every peer, higher
\* or lower; a send that fails changes nothing of the round.
C6_TimeoutPromotion ==
    [][\A n \in up :
          /\ (~ok_event[n] /\ WaitOk(n)) =>
                /\ leader_id'[n] = Some(n)
                /\ \A p \in Nodes :
                      /\ New("COORDINATOR", n, p) = IF p \in peer_map(n) THEN 1 ELSE 0
                      /\ CoordCopies(msgs', n, p, n) = Copies(msgs', "COORDINATOR", n, p)
                /\ thr'[n]["finally"] = thr[n]["finally"] + 1
          /\ \A m \in BagToSet(msgs) :
                (m.src = n /\ SendFails(m)) =>
                    /\ thr' = thr /\ leader_id' = leader_id
                    /\ ok_event' = ok_event /\ election_lock' = election_lock]_vars

\* Node 2's ELECTION to 3 failed, the round timed out: 2 leads and its
\* COORDINATORs to the lower peer 1 and the higher peer 3 are in flight.
C6_Witness ==
    /\ up = {2} /\ posted = 0 /\ thr[2]["finally"] = 1
    /\ leader_id[2] = Some(2)
    /\ Copies(msgs, "ELECTION", 2, 3) = 0
    /\ CoordCopies(msgs, 2, 1, 2) = 1 /\ CoordCopies(msgs, 2, 3, 2) = 1

\* C7: once the OK signal is set while a round waits it stays set until the
\* round takes its step, and the round that observes it neither writes
\* leader_id nor sends a COORDINATOR, up to and including its release.
C7_OkMeansNoPromotion ==
    [][\A n \in up :
          /\ (thr[n]["wait"] >= 1 /\ ok_event[n]) => ok_event'[n]
          /\ ((ok_event[n] /\ WaitOk(n)) \/ Release(n)) =>
                /\ leader_id'[n] = leader_id[n]
                /\ \A p \in Nodes : New("COORDINATOR", n, p) = 0]_vars

\* Node 1's round observed the one OK posted to it: the round is over, the
\* leader is still unknown and no COORDINATOR left node 1.
C7_Witness ==
    /\ up = {1} /\ posted = 1 /\ triggers = 0
    /\ thr[1]["finally"] = 1 /\ ok_event[1] /\ leader_id[1] = None
    /\ \A p \in Nodes : Copies(msgs, "COORDINATOR", 1, p) = 0

\* OK replies and election threads that node n starts in this step.
NewOk(n) == New("OK", n, 1) + New("OK", n, 2) + New("OK", n, 3)
NewElectionThreads(n) == thr'[n]["acquire"] - thr[n]["acquire"]

C9_CoordinatorOverwrites ==
    [][HandlerStep => \A n \in up : \A m \in Inbound(n, "COORDINATOR") : \A L \in IdRange :
          (m.leader = IdWire[L] /\ Handled(n, m)) =>
              leader_id'[n] = Some(L)]_vars

\* Node 3 led (its COORDINATORs are in flight) and a COORDINATOR naming 1
\* then replaced its own id.
C9_Witness ==
    /\ up = {3} /\ posted = 1
    /\ CoordCopies(msgs, 3, 1, 3) = 1 /\ InBody(3) = 0 /\ triggers = 0
    /\ leader_id[3] = Some(1)

\* C10 as claimed: a COORDINATOR whose leader field is absent or not a number
\* leaves leader_id as it was.
C10_MalformedLeaderIgnored ==
    [][HandlerStep => \A n \in up : \A m \in Inbound(n, "COORDINATOR") :
          (m.leader \in {None, Some(<<"x">>), Some(<<>>)} /\ Handled(n, m)) =>
              leader_id'[n] = leader_id[n]]_vars

\* C11: a failed probe of peer p starts one election thread at the probing
\* node when p is the leader the node holds at that moment and none otherwise
\* (no leader held, the node itself, another peer); a probe that succeeds
\* starts none, at either end.
C11_ProbeStartsElection ==
    [][\A n \in up : \A p \in Nodes :
          /\ ProbeFailed(n, p) =>
                /\ NewElectionThreads(n) = IF leader_id[n] = Some(p) THEN 1 ELSE 0
                /\ \A q \in Nodes \ {n} : thr'[q] = thr[q]
                /\ \A pc \in PCs \ {"acquire"} : thr'[n][pc] = thr[n][pc]
          /\ ProbeOk(n, p) => thr' = thr]_vars

\* Node 1 holds 2 as its leader, its own rounds are over, and the failed probe
\* of 2 has started one election thread.
C11_Witness ==
    /\ up = {1, 2} /\ leader_id[1] = Some(2) /\ triggers = 1
    /\ thr[1]["acquire"] = 1 /\ InBody(1) = 0 /\ ~election_lock[1]
    /\ BagCardinality(msgs) = 0

\* C12 as claimed: the clock never goes back and every call's store raises it
\* by at least 1, however the calls of the callers interleave.
C12_NoLostIncrement ==
    [][/\ time' >= time
       /\ \A c \in Callers : Store(c) => time' >= time + 1]_vars

\* C13: update(r) run on its own sets the clock to max(previous, r) + 1 for a
\* number r below, at or above the clock, sets it to previous + 1, as tick
\* does, when r is absent or no number, and returns the value it set.
C13_UpdateIsMaxPlusOne ==
    [][\A r \in RemoteTs :
          UpdateAlone(r) =>
              /\ r \in IntTs =>
                    time' = IF r.int > time THEN r.int + 1 ELSE time + 1
              /\ r \in {TsNone, TsStr(<<"x">>), TsStr(<<>>)} =>
                    /\ time' = time + 1
                    /\ time' = tick(time)
              /\ calls'["rpc"].ret = time']_vars

\* update was handed a timestamp above the clock and returned that timestamp
\* plus one, which is the clock now.
C13_Witness ==
    /\ calls["rpc"].op = "update" /\ calls["rpc"].pc = "idle"
    /\ calls["rpc"].arg = TsInt(MaxTs) /\ calls["rpc"].reg < MaxTs
    /\ calls["rpc"].ret = MaxTs + 1 /\ time = MaxTs + 1

(***************************************************************************)
(* Agreement in a cluster.                                                 *)
(***************************************************************************)
\* Every round has ended and no sender thread is left.
Quiescent ==
    /\ \A n \in Nodes : \A pc \in PCs : thr[n][pc] = 0
    /\ msgs = EmptyBag

\* The highest id among the processes that run.
HighestUp == CHOOSE n \in up : \A q \in up : q <= n

OneCoordinator ==
    /\ Cardinality({n \in up : leader_id[n] = Some(n)}) <= 1
    /\ \A a \in up : \A b \in up : leader_id[a] = leader_id[b]

\* C14 as claimed: once every round has ended and every message was
\* processed, at most one running node names itself leader and all running
\* nodes hold the same leader_id.
C14_SingleCoordinator == Quiescent => OneCoordinator

\* C14 amended: the same, when no wait timed out while an answer to its round
\* was still on its way.
C14_SingleCoordinatorTimely == (timely /\ Quiescent) => OneCoordinator

\* Nodes 1 and 2 both ran their elections, node 1 deferred to 2, and both
\* hold 2 once everything has settled.
C14_Witness ==
    /\ timely /\ Quiescent /\ up = {1, 2} /\ started = {1, 2}
    /\ leader_id[1] = Some(2) /\ leader_id[2] = Some(2)
    /\ 1 \in heard

HighestLeads == \A n \in up : leader_id[n] = Some(HighestUp)

\* C15 as claimed: with every node up to stay and every message delivered,
\* the cluster comes to hold, and keeps, the highest running id as leader_id
\* of every running node.
C15_HighestWins == <>[]HighestLeads

\* C15 amended: so it does when no wait times out while an answer to its
\* round is still on its way.
C15_HighestWinsTimely == timely => <>[]HighestLeads

\* Nodes 1 and 3 ran their elections in time; 3 announced itself and both
\* hold 3, with nothing left to run or to deliver.
C15_Witness ==
    /\ timely /\ Quiescent /\ up = {1, 3} /\ started = {1, 3}
    /\ HighestLeads /\ deferred = {}

C16_LeaderWrittenByTwo ==
    /\ \A n \in Nodes : leader_id[n] = None
    /\ [][\A n \in Nodes :
             leader_id'[n] # leader_id[n] =>
                 \/ (Branch(n) \/ (~ok_event[n] /\ WaitOk(n))) /\ leader_id'[n] = Some(n)
                 \/ /\ n \in up
                    /\ \E m \in Inbound(n, "COORDINATOR") :
                          Handled(n, m) /\ leader_id'[n] = ParseInt(m.leader)]_vars

\* Node 2 holds 7, a leader that only a COORDINATOR can have named.
C16_Witness ==
    /\ up = {2} /\ posted = 1 /\ leader_id[2] = Some(7)
    /\ started = {2} /\ InBody(2) = 1

\* This step starts no sender thread.
NoSend == \A x \in BagToSet(msgs') : CopiesIn(x, msgs') <= CopiesIn(x, msgs)

\* What the handling of an OK or of a PING leaves as it is.
NoProtocolEffect ==
    /\ leader_id' = leader_id
    /\ election_lock' = election_lock
    /\ thr' = thr
    /\ NoSend

\* C17 as claimed: an OK handled while no round of the node waits changes
\* neither leader_id nor the guard, sends nothing and starts nothing, and no
\* round observes it: a round enters its wait with the OK signal clear.
C17_LateOkIsNoOp ==
    [][\A n \in up :
          /\ HandlerStep =>
                \A m \in Inbound(n, "OK") :
                    (thr[n]["wait"] = 0 /\ Handled(n, m)) => NoProtocolEffect
          /\ thr'[n]["wait"] > thr[n]["wait"] => ~ok_event'[n]]_vars

\* C17 amended: an OK handled while no round of the node is between its reset
\* of the OK signal and the end of its wait changes neither leader_id nor the
\* guard, sends nothing and starts nothing; the signal it sets is reset by
\* the next round before that round sends or waits, and only an OK sets it.
C17_LateOkSwallowed ==
    [][\A n \in up :
          /\ HandlerStep =>
                \A m \in Inbound(n, "OK") :
                    (thr[n]["branch"] = 0 /\ thr[n]["wait"] = 0 /\ Handled(n, m)) =>
                        NoProtocolEffect
          /\ ClearOk(n) => ~ok_event'[n]
          /\ (~ok_event[n] /\ ok_event'[n]) =>
                \E m \in Inbound(n, "OK") : Handled(n, m)]_vars

\* Node 1's round timed out and promoted it; an OK came after that, and the
\* next call of start_election is about to try the guard.
C17_Witness ==
    /\ up = {1} /\ leader_id[1] = Some(1) /\ ok_event[1] /\ posted = 1
    /\ thr[1]["acquire"] = 1 /\ InBody(1) = 0 /\ ~election_lock[1]
    /\ triggers = 1

\* C18: the handling of a PING or of a message of an unknown type leaves
\* leader_id, the OK signal and the guard as they are, sends nothing and
\* starts no election.
C18_PingHasNoEffect ==
    [][HandlerStep => \A n \in up :
          \A m \in Inbound(n, "PING") \cup Inbound(n, "STATUS") :
              Handled(n, m) => (NoProtocolEffect /\ ok_event' = ok_event)]_vars

\* Node 2 waits for an answer; the one message posted to it so far has
\* neither set its OK signal nor started a thread nor named a leader.
C18_Witness ==
    /\ up = {2} /\ posted = 1 /\ thr[2]["wait"] = 1 /\ thr[2]["acquire"] = 0
    /\ ~ok_event[2] /\ leader_id[2] = None
    /\ Copies(msgs, "ELECTION", 2, 3) = 1 /\ BagCardinality(msgs) = 1

\* C20 as claimed: the timestamp rpc_endpoint hands to the handler for a
\* message that carries ts is above ts and above the clock as the endpoint
\* read it, whatever the sender threads do to the clock meanwhile.
C20_ReceiveAfterSend ==
    [][\A k \in -1..MaxTs :
          (calls["rpc"].op = "update" /\ calls["rpc"].arg = TsInt(k) /\ Return("rpc")) =>
              /\ calls'["rpc"].ret > k
              /\ calls'["rpc"].ret > calls["rpc"].reg]_vars

====
